---------------------------- MODULE Spec2Model ----------------------------
(***************************************************************************)
(* Model of the incident store, the ingestion run (ExcelToDBProcessor) and *)
(* the similarity search (EnhancedJiraCommentUpdater) of inc-jira-updater. *)
(*                                                                         *)
(* The incidents table is a sequence of rows in physical (insertion)       *)
(* order.  A spreadsheet is a sequence of rows (INC, Short Desc).  Floats  *)
(* are exact: a similarity is kept as the pair (dot product, product of    *)
(* the squared norms) and compared by cross-multiplication.                *)
(***************************************************************************)
EXTENDS Integers, Sequences, FiniteSets, TLC

VARIABLES store, run, qry, w, ana, req, registered

vars == <<store, run, qry, w, ana, req, registered>>

(***************************************************************************)
(* Bounds                                                                  *)
(***************************************************************************)
\* longest spreadsheet of one sequential ingestion run
MaxBatch == 3

\* longest spreadsheet of a concurrent writer
MaxConcBatch == 2

\* largest corpus the queries are run against
MaxCorpus == 3

\* largest LIMIT passed to a query
MaxLimit == 3

\* rows per executemany call; the source uses 100 (excel_to_db_processor.py
\* line 185), scaled down so that a spreadsheet spans more than one chunk
batch_size == 2

(***************************************************************************)
(* Input domains                                                           *)
(***************************************************************************)
\* str(row.get('INC', '')) of a spreadsheet row: '' for a missing cell,
\* 'nan' for an empty one
IngestKeys == {"", "nan", "K1", "K2"}

\* the Short Desc of a row as str(row.get('Short Desc', '')) yields it: a
\* text, the empty string, or 'nan' for a cell that read_excel found empty
IngestTexts == {"", "nan", "a"}

\* the INC keys of the corpus in ascending order
KeyNames == <<"K1", "K2", "K3", "K4", "K5">>

CorpusTexts == {"", "a", "b", "z"}

Writers == {1, 2}

ConcKeys == {"K1", "K2"}

ConcTexts == {"a", "b"}

Min(a, b) == IF a <= b THEN a ELSE b

\* all sequences over S of length 0..n
SeqsUpTo(S, n) == UNION {[1..k -> S] : k \in 0..n}

(***************************************************************************)
(* Embedding provider: a function text -> vector of fixed length 2.  The   *)
(* text "z" stands for a text the provider maps to the zero vector.        *)
(***************************************************************************)
embed_content(text) ==
  CASE text = "a" -> <<1, 0>>
    [] text = "b" -> <<1, 1>>
    [] text = "z" -> <<0, 0>>
    [] OTHER      -> <<0, 1>>

\* generate_embedding: the provider's vector, or [] when the call raised
generate_embedding(text, ok) == IF ok THEN embed_content(text) ELSE <<>>

(***************************************************************************)
(* Incident store                                                          *)
(***************************************************************************)
\* SELECT INC FROM incidents, answered by the table
get_existing_incidents(st) == {st[i].INC : i \in DOMAIN st}

\* INSERT without the PRIMARY KEY constraint: the row is always appended
INSERT_NoPrimaryKey(st, rec) == [ok |-> TRUE, store |-> Append(st, rec)]

\* INSERT OR REPLACE: a row with the same key is overwritten
INSERT_OrReplace(st, rec) ==
  IF rec.INC \in get_existing_incidents(st)
  THEN [ok |-> TRUE,
        store |-> [i \in DOMAIN st |-> IF st[i].INC = rec.INC THEN rec ELSE st[i]]]
  ELSE [ok |-> TRUE, store |-> Append(st, rec)]

\* INSERT INTO incidents VALUES (...) of one row under INC VARCHAR PRIMARY KEY:
\* a row whose key is stored is rejected with a constraint error
INSERT(st, rec) ==
  IF rec.INC \in get_existing_incidents(st)
  THEN [ok |-> FALSE, store |-> st]
  ELSE [ok |-> TRUE, store |-> Append(st, rec)]

\* executemany: the statement is executed once per row, each execution
\* committed on its own; the first rejected row raises and ends the call.
\* Result: the store, the number of rows written and the key that raised.
RECURSIVE executemany(_, _, _)
executemany(st, values, n) ==
  IF values = <<>> THEN [store |-> st, written |-> n, raised |-> FALSE, key |-> ""]
  ELSE LET r == INSERT(st, Head(values))
       IN IF r.ok THEN executemany(r.store, Tail(values), n + 1)
          ELSE [store |-> st, written |-> n, raised |-> TRUE, key |-> Head(values).INC]

(***************************************************************************)
(* Ingestion                                                               *)
(***************************************************************************)
\* the row is skipped as already stored (line 141)
SkipExisting(row, existing_incs) == row.INC \in existing_incs

\* the row is skipped for its empty key (line 146)
SkipBlank(row) == row.INC = "" \/ row.INC = "nan"

\* the incident dictionary built from a row (lines 153-170); oks[i] tells
\* whether the provider answered for row i
incident(row, ok) ==
  [INC       |-> row.INC,
   ShortDesc |-> row.ShortDesc,
   Assignee  |-> row.Assignee,
   Group     |-> row.Group,
   vector    |-> IF row.ShortDesc # "" THEN generate_embedding(row.ShortDesc, ok)
                 ELSE <<>>]

\* indices of the rows that prepare_incident_data keeps
Kept(df, existing_incs) ==
  {i \in DOMAIN df : ~SkipExisting(df[i], existing_incs) /\ ~SkipBlank(df[i])}

RECURSIVE prepare_from(_, _, _, _)
prepare_from(df, oks, existing_incs, i) ==
  IF i > Len(df) THEN <<>>
  ELSE IF i \in Kept(df, existing_incs)
       THEN <<incident(df[i], oks[i])>> \o prepare_from(df, oks, existing_incs, i + 1)
       ELSE prepare_from(df, oks, existing_incs, i + 1)

\* prepare_incident_data: one snapshot of the stored keys, then every row of
\* the spreadsheet in order
prepare_incident_data(st, df, oks) ==
  prepare_from(df, oks, get_existing_incidents(st), 1)

\* the keys printed as "Skipping existing INC", in row order
RECURSIVE skipped_from(_, _, _)
skipped_from(df, existing_incs, i) ==
  IF i > Len(df) THEN <<>>
  ELSE IF SkipExisting(df[i], existing_incs)
       THEN <<df[i].INC>> \o skipped_from(df, existing_incs, i + 1)
       ELSE skipped_from(df, existing_incs, i + 1)

\* insert_incidents: chunks of batch_size rows, one executemany per chunk;
\* an exception of a chunk is re-raised and ends the loop
RECURSIVE insert_incidents(_, _, _)
insert_incidents(st, incidents, total_inserted) ==
  IF incidents = <<>>
  THEN [store |-> st, written |-> total_inserted, raised |-> FALSE, key |-> ""]
  ELSE LET n == Min(batch_size, Len(incidents))
           batch == SubSeq(incidents, 1, n)
           r == executemany(st, batch, 0)
       IN IF r.raised
          THEN [store |-> r.store, written |-> total_inserted + r.written,
                raised |-> TRUE, key |-> r.key]
          ELSE insert_incidents(r.store, SubSeq(incidents, n + 1, Len(incidents)),
                                total_inserted + n)

\* process_excel_to_db over the table st, where seen is the table as the
\* SELECT of get_existing_incidents answered it: st itself, or the empty
\* table when the SELECT raised and get_existing_incidents returned set().
\* Result: what the run leaves behind and reports.
process_excel_to_db_read(seen, st, df, oks) ==
  LET incidents == prepare_incident_data(seen, df, oks)
      r == insert_incidents(st, incidents, 0)
  IN [store     |-> r.store,
      df        |-> df,
      before    |-> st,
      seen      |-> seen,
      skipped   |-> skipped_from(df, get_existing_incidents(seen), 1),
      incidents |-> incidents,
      written   |-> r.written,
      raised    |-> r.raised,
      key       |-> r.key]

\* process_excel_to_db of a run whose SELECT is answered
process_excel_to_db(st, df, oks) == process_excel_to_db_read(st, st, df, oks)

Rows(keys, texts) ==
  [INC : keys, ShortDesc : texts, Assignee : {"jack"}, Group : {"app-dev"}]

\* the rows of the spreadsheets of the runs; the Short Desc of a row that is
\* skipped for its empty key is never read, so one text stands for all
IngestRows ==
  {row \in Rows(IngestKeys, IngestTexts) : SkipBlank(row) => row.ShortDesc = "a"}

NoRun == [kind |-> "none"]

NoQry == [kind |-> "none"]

Idle == [pc |-> "idle"]

NoAna == [kind |-> "none"]

NoReq == [kind |-> "none"]

(***************************************************************************)
(* Sequential ingestion runs                                               *)
(***************************************************************************)
Init ==
  /\ store = <<>>
  /\ run = NoRun
  /\ qry = NoQry
  /\ w = [id \in Writers |-> Idle]
  /\ ana = NoAna
  /\ req = NoReq
  /\ registered = {}

\* the provider outcomes of one run: it can fail only where it is called
Outcomes(st, df) ==
  {oks \in [DOMAIN df -> BOOLEAN] :
     \A i \in DOMAIN df :
       ~oks[i] => (i \in Kept(df, get_existing_incidents(st)) /\ df[i].ShortDesc # "")}

\* main: one run of process_excel_to_db over a spreadsheet
Ingest ==
  /\ run = NoRun
  /\ \E df \in SeqsUpTo(IngestRows, MaxBatch) :
       \E oks \in Outcomes(store, df) :
         LET r == process_excel_to_db(store, df, oks)
         IN /\ store' = r.store
            /\ run' = [kind |-> "first", rep |-> r]
            /\ UNCHANGED <<qry, w, ana, req, registered>>

\* main run again over the same spreadsheet
IngestAgain ==
  /\ run # NoRun
  /\ run.kind = "first"
  /\ \E oks \in Outcomes(store, run.rep.df) :
       LET r == process_excel_to_db(store, run.rep.df, oks)
       IN /\ store' = r.store
          /\ run' = [kind |-> "second", rep |-> r]
          /\ UNCHANGED <<qry, w, ana, req, registered>>

\* a run whose SELECT of the stored keys raised: get_existing_incidents
\* printed the error and returned set(), the run went on
IngestUnread ==
  /\ run = NoRun
  /\ store # <<>>
  /\ \E df \in SeqsUpTo(IngestRows, MaxBatch) :
       \E oks \in Outcomes(<<>>, df) :
         LET r == process_excel_to_db_read(<<>>, store, df, oks)
         IN /\ store' = r.store
            /\ run' = [kind |-> "unread", rep |-> r]
            /\ UNCHANGED <<qry, w, ana, req, registered>>

\* close_connection: the run is over and its report is gone
close_connection ==
  /\ run # NoRun
  /\ run' = NoRun
  /\ UNCHANGED <<store, qry, w, ana, req, registered>>

Next == Ingest \/ IngestAgain \/ IngestUnread \/ close_connection

Spec == Init /\ [][Next]_vars

(***************************************************************************)
(* Properties of the sequential ingestion runs                             *)
(***************************************************************************)
Keys(seq) == {seq[i].INC : i \in DOMAIN seq}

\* number of rows of seq with key k
Occurrences(seq, k) == Cardinality({i \in DOMAIN seq : seq[i].INC = k})

\* keys of the spreadsheet that are candidates for insertion: not blank and
\* not stored when the run began
NewKeys(rep) ==
  {k \in Keys(rep.df) : k # "" /\ k # "nan" /\ k \notin Keys(rep.before)}

\* C1: key uniqueness - in every state reached by ingestion runs, no two rows
\* of the incidents table share the same INC key.
KeyUniqueness ==
  \A i, j \in DOMAIN store : store[i].INC = store[j].INC => i = j

\* a run over a spreadsheet that repeats a stored key and also repeats a new
\* key, whose second insert was rejected, has ended
KeyUniquenessWitness ==
  /\ run # NoRun
  /\ run.rep.skipped # <<>>
  /\ run.rep.raised
  /\ Len(store) >= 2

\* C2: in-batch de-duplication - when a spreadsheet holds a new key more than
\* once, the run prepares only its first occurrence for insertion, reports
\* every later occurrence as skipped and ends without raising.
InBatchDeduplication ==
  run # NoRun =>
    \A k \in NewKeys(run.rep) :
      Occurrences(run.rep.df, k) >= 2 =>
        /\ ~run.rep.raised
        /\ Occurrences(run.rep.incidents, k) = 1
        /\ Cardinality({i \in DOMAIN run.rep.skipped : run.rep.skipped[i] = k})
             = Occurrences(run.rep.df, k) - 1

\* C3: dedup idempotence - a second run over the same spreadsheet leaves the
\* store as the first run left it, writes no row and skips every candidate
\* key as already stored.
DedupIdempotence ==
  (run # NoRun /\ run.kind = "second") =>
    /\ store = run.rep.before
    /\ run.rep.written = 0
    /\ run.rep.incidents = <<>>
    /\ \A i \in DOMAIN run.rep.df :
         (run.rep.df[i].INC # "" /\ run.rep.df[i].INC # "nan") =>
           \E j \in DOMAIN run.rep.skipped : run.rep.skipped[j] = run.rep.df[i].INC

\* C4: partial-failure batch insert - when one record of a run is rejected,
\* no exception escapes the run and every other prepared record is stored.
PartialFailureInsert ==
  (run # NoRun /\ run.rep.key # "") =>
    /\ ~run.rep.raised
    /\ \A i \in DOMAIN run.rep.incidents : run.rep.incidents[i].INC \in Keys(store)

(***************************************************************************)
(* Concurrent ingestion: two processors write to the same table.  A writer *)
(* takes its snapshot and prepares its incidents in one step, then its     *)
(* executemany calls run one INSERT at a time, interleaved with the other  *)
(* writer's.                                                               *)
(***************************************************************************)
\* process_excel_to_db up to the call of insert_incidents
WriterPrepare(id) ==
  /\ w[id].pc = "idle"
  /\ \E df \in SeqsUpTo(Rows(ConcKeys, ConcTexts), MaxConcBatch) :
       LET incidents == prepare_incident_data(store, df, [i \in DOMAIN df |-> TRUE])
       IN w' = [w EXCEPT ![id] =
                  [pc        |-> IF incidents = <<>> THEN "done" ELSE "inserting",
                   incidents |-> incidents,
                   out       |-> <<>>,
                   key       |-> ""]]
  /\ UNCHANGED <<store, run, qry, ana, req, registered>>

\* the next INSERT of the writer's executemany calls
WriterInsert(id) ==
  /\ w[id].pc = "inserting"
  /\ LET i == Len(w[id].out) + 1
         r == INSERT(store, w[id].incidents[i])
     IN /\ store' = r.store
        /\ w' = [w EXCEPT ![id] =
                   IF r.ok
                   THEN [@ EXCEPT !.out = Append(@, "ok"),
                                  !.pc = IF i = Len(w[id].incidents)
                                         THEN "done" ELSE "inserting"]
                   ELSE [@ EXCEPT !.out = Append(@, "duplicate"),
                                  !.pc = "failed",
                                  !.key = w[id].incidents[i].INC]]
  /\ UNCHANGED <<run, qry, ana, req, registered>>

\* the writer's run is over (close_connection in main's finally)
WriterClose(id) ==
  /\ w[id].pc \in {"done", "failed"}
  /\ w' = [w EXCEPT ![id] = Idle]
  /\ UNCHANGED <<store, run, qry, ana, req, registered>>

NextConc == \E id \in Writers : WriterPrepare(id) \/ WriterInsert(id) \/ WriterClose(id)

SpecConc == Init /\ [][NextConc]_vars

\* the rows of writer id for key k whose INSERT was executed
Attempts(id, k) ==
  IF w[id].pc = "idle" THEN {}
  ELSE {j \in 1..Len(w[id].out) : w[id].incidents[j].INC = k}

\* writers a and b both prepared key k (so both snapshots were taken before k
\* was stored) and both have executed an INSERT of k
BothInserted(a, b, k) ==
  /\ a # b
  /\ Attempts(a, k) # {}
  /\ Attempts(b, k) # {}

\* C5: concurrent ingestion of the same key - when two writers both took
\* their snapshot before the key was stored and both executed its INSERT,
\* exactly one INSERT succeeded, every other one was rejected as a duplicate
\* and failed its writer's run, and the stored row is the winner's.
ConcurrentSameKey ==
  \A a, b \in Writers : \A k \in ConcKeys :
    BothInserted(a, b, k) =>
      LET won == {x \in {<<a, j>> : j \in Attempts(a, k)} \cup {<<b, j>> : j \in Attempts(b, k)} :
                    w[x[1]].out[x[2]] = "ok"}
      IN /\ Cardinality(won) = 1
         /\ \A x \in won :
              /\ Occurrences(store, k) = 1
              /\ \E i \in DOMAIN store : store[i] = w[x[1]].incidents[x[2]]
              /\ \A y \in {a, b} \ {x[1]} : w[y].pc = "failed" /\ w[y].key = k

\* both writers executed an INSERT of K1 with different descriptions
ConcurrentSameKeyWitness ==
  /\ BothInserted(1, 2, "K1")
  /\ \E i \in Attempts(1, "K1") : \E j \in Attempts(2, "K1") :
       w[1].incidents[i] # w[2].incidents[j]

(***************************************************************************)
(* Similarity search                                                       *)
(***************************************************************************)
\* np.dot of two vectors of the same length
RECURSIVE dot(_, _)
dot(a, b) == IF a = <<>> THEN 0 ELSE Head(a) * Head(b) + dot(Tail(a), Tail(b))

\* cosine_similarity: np.dot(a, b) / (norm(a) * norm(b)).  np.dot raises on
\* vectors of different lengths; a zero norm gives 0/0 = NaN.  A number is
\* kept as d / sqrt(n) with d the dot product and n the product of the
\* squared norms.
cosine_similarity(a, b) ==
  IF Len(a) # Len(b) THEN [kind |-> "raise"]
  ELSE IF dot(a, a) * dot(b, b) = 0 THEN [kind |-> "nan"]
  ELSE [kind |-> "num", d |-> dot(a, b), n |-> dot(a, a) * dot(b, b)]

\* the rational p / q (q > 0) as a similarity value
Float(p, q) == [kind |-> "num", d |-> p, n |-> q * q]

\* x |-> sign(x) * x^2, which keeps the order of the numbers d / sqrt(n)
SignedSquare(d) == IF d >= 0 THEN d * d ELSE 0 - d * d

\* s1 < s2 for two numbers
Less(s1, s2) == SignedSquare(s1.d) * s2.n < SignedSquare(s2.d) * s1.n

\* threshold >= similarity, the operands of line 71 swapped
Eligible_Swapped(similarity, threshold) ==
  similarity.kind = "num" /\ ~Less(threshold, similarity)

\* row[8] >= threshold (line 71); every comparison with NaN is false
Eligible(similarity, threshold) ==
  similarity.kind = "num" /\ ~Less(similarity, threshold)

\* s1 sorts strictly before s2 under ORDER BY similarity DESC: NaN is the
\* greatest value of the column
SortsBefore(s1, s2) ==
  IF s1.kind = "nan" THEN s2.kind # "nan"
  ELSE IF s2.kind = "nan" THEN FALSE
  ELSE Less(s2, s1)

\* the orders in which ORDER BY similarity DESC may deliver the rows: rows
\* of equal similarity come in any order
OrderBy(similarity) ==
  {p \in [DOMAIN similarity -> DOMAIN similarity] :
     /\ \A i, j \in DOMAIN p : p[i] = p[j] => i = j
     /\ \A i, j \in DOMAIN p :
          i < j => ~SortsBefore(similarity[p[j]], similarity[p[i]])}

\* search_similar_incidents: the outcomes of one call against the table st
search_similar_incidents(st, query_vector, threshold, limit) ==
  LET similarity == [i \in DOMAIN st |-> cosine_similarity(st[i].vector, query_vector)]
  IN IF \E i \in DOMAIN st : similarity[i].kind = "raise"
     THEN {[raised |-> TRUE, matches |-> <<>>]}
     ELSE {LET results == [i \in 1..Min(limit, Len(st)) |->
                             [INC        |-> st[p[i]].INC,
                              ShortDesc  |-> st[p[i]].ShortDesc,
                              Assignee   |-> st[p[i]].Assignee,
                              Group      |-> st[p[i]].Group,
                              similarity |-> similarity[p[i]]]]
               keep(row) == Eligible(row.similarity, threshold)
           IN [raised |-> FALSE, matches |-> SelectSeq(results, keep)]
           : p \in OrderBy(similarity)}

\* model.encode of the issue descriptions that are searched for
QueryVectors == {<<1, 0>>, <<1, 1>>, <<0, 1>>, <<-1, 0>>}

\* thresholds passed to the search: -1.0, 0.0, the default 0.3, 0.8, 1.0
Thresholds == {Float(-1, 1), Float(0, 1), Float(3, 10), Float(4, 5), Float(1, 1)}

\* the corpus grows by one run over a one-row spreadsheet that brings the
\* next INC key
Load ==
  /\ qry = NoQry
  /\ Len(store) < MaxCorpus
  /\ \E row \in Rows({KeyNames[Len(store) + 1]}, CorpusTexts) :
       store' = process_excel_to_db(store, <<row>>, <<TRUE>>).store
  /\ UNCHANGED <<run, qry, w, ana, req, registered>>

\* one call of search_similar_incidents, made by an updater of its own: a
\* connection takes the registration of cosine_similarity once (see
\* process_jira_issue for a second call on the same updater)
Query ==
  /\ qry = NoQry
  /\ \E query_vector \in QueryVectors, threshold \in Thresholds, limit \in 1..MaxLimit :
       \E res \in search_similar_incidents(store, query_vector, threshold, limit) :
         /\ qry' = [kind |-> "first", query_vector |-> query_vector,
                    threshold |-> threshold, limit |-> limit, res |-> res]
         /\ UNCHANGED <<store, run, w, ana, req, registered>>

\* a further call with the same description and limit, by another updater
QueryAgain ==
  /\ qry # NoQry
  /\ qry.kind = "first"
  /\ \E threshold \in Thresholds :
       \E res \in search_similar_incidents(store, qry.query_vector, threshold, qry.limit) :
         /\ qry' = [kind |-> "second", query_vector |-> qry.query_vector,
                    threshold |-> qry.threshold, limit |-> qry.limit, res |-> qry.res,
                    threshold2 |-> threshold, res2 |-> res]
         /\ UNCHANGED <<store, run, w, ana, req, registered>>

\* the caller is done with the matches, which are not kept
QueryReturn ==
  /\ qry # NoQry
  /\ qry' = NoQry
  /\ UNCHANGED <<store, run, w, ana, req, registered>>

NextQuery == Load \/ Query \/ QueryAgain \/ QueryReturn

SpecQuery == Init /\ [][NextQuery]_vars

(***************************************************************************)
(* Properties of the similarity search                                     *)
(***************************************************************************)
\* position of an INC key in ascending string order
KeyRank(k) == CHOOSE i \in DOMAIN KeyNames : KeyNames[i] = k

\* the similarity of stored row i to the query vector of the last call
Score(i) == cosine_similarity(store[i].vector, qry.query_vector)

\* the stored rows returned by an outcome
Returned(res) == {i \in DOMAIN store : \E j \in DOMAIN res.matches : res.matches[j].INC = store[i].INC}

\* s1 >= s2 as numbers
AtLeast(s1, s2) == s1.kind = "num" /\ s2.kind = "num" /\ ~Less(s1, s2)

\* C6: top-K correctness - a search with threshold -1.0 and limit K returns
\* exactly min(K, corpus size) matches, each scoring at least as high as
\* every stored record that was not returned.
TopKCorrectness ==
  (qry # NoQry /\ qry.threshold = Float(-1, 1)) =>
    /\ ~qry.res.raised
    /\ Len(qry.res.matches) = Min(qry.limit, Len(store))
    /\ \A i \in Returned(qry.res) : \A j \in DOMAIN store \ Returned(qry.res) :
         AtLeast(Score(i), Score(j))

\* C7: filter, sort, then truncate - the result is the records scoring at
\* least the threshold, sorted by score descending, cut to the first `limit`:
\* min(limit, eligible) matches, all eligible, in descending order, and no
\* eligible record left out that scores higher than a returned one.
FilterSortTruncate ==
  qry # NoQry =>
    /\ ~qry.res.raised
    /\ LET eligible == {i \in DOMAIN store :
                          Score(i).kind = "num" /\ ~Less(Score(i), qry.threshold)}
           m == qry.res.matches
       IN /\ Len(m) = Min(qry.limit, Cardinality(eligible))
          /\ Returned(qry.res) \subseteq eligible
          /\ \A i, j \in DOMAIN m : i < j => AtLeast(m[i].similarity, m[j].similarity)
          /\ \A i \in Returned(qry.res) : \A j \in eligible \ Returned(qry.res) :
               AtLeast(Score(i), Score(j))

\* C8: ranking order with tie-break - matches come in descending score
\* order, and matches of equal score in ascending order of their INC.
RankingOrder ==
  qry # NoQry =>
    LET m == qry.res.matches
    IN \A i, j \in DOMAIN m :
         i < j => /\ AtLeast(m[i].similarity, m[j].similarity)
                  /\ AtLeast(m[j].similarity, m[i].similarity)
                       => KeyRank(m[i].INC) < KeyRank(m[j].INC)

\* C9: ranking determinism - two calls with the same store, query vector,
\* threshold and limit return the same matches in the same order.
RankingDeterminism ==
  (qry # NoQry /\ qry.kind = "second" /\ qry.threshold2 = qry.threshold) =>
    qry.res2 = qry.res

\* C10: threshold monotonicity - of two calls with the same store, query
\* vector and limit, the one with the higher threshold returns no more
\* matches than the other.
ThresholdMonotonicity ==
  (qry # NoQry /\ qry.kind = "second") =>
    /\ ~Less(qry.threshold2, qry.threshold)
         => Len(qry.res2.matches) <= Len(qry.res.matches)
    /\ ~Less(qry.threshold, qry.threshold2)
         => Len(qry.res.matches) <= Len(qry.res2.matches)

\* the second call had a higher threshold and returned fewer, but some,
\* matches of a corpus that holds a zero vector as well
ThresholdMonotonicityWitness ==
  /\ qry # NoQry
  /\ qry.kind = "second"
  /\ Less(qry.threshold, qry.threshold2)
  /\ ~qry.res.raised
  /\ Len(qry.res2.matches) >= 1
  /\ Len(qry.res2.matches) < Len(qry.res.matches)
  /\ \E i \in DOMAIN store : store[i].vector = <<0, 0>>

\* C11: zero-vector safety - when a stored embedding has zero magnitude, the
\* score computed for that record is exactly 0 and the query does not raise,
\* so that it still returns its results for the other records.
ZeroVectorSafety ==
  qry # NoQry =>
    /\ ~qry.res.raised
    /\ \A i \in DOMAIN store :
         dot(store[i].vector, store[i].vector) = 0 =>
           (Score(i).kind = "num" /\ Score(i).d = 0)

(***************************************************************************)
(* Further properties of the stored rows                                   *)
(***************************************************************************)
\* C20: uniform dimensionality - all stored embeddings have the same length;
\* a candidate whose vector has another length, the empty vector included,
\* is not stored.
UniformDimensionality ==
  \A i, j \in DOMAIN store : Len(store[i].vector) = Len(store[j].vector)

(***************************************************************************)
(* All operations on the table together: sequential runs, concurrent       *)
(* writers and queries, one kind at a time.                                *)
(***************************************************************************)
AllIdle == \A id \in Writers : w[id].pc = "idle"

NextStore ==
  \/ (qry = NoQry /\ AllIdle /\ Ingest)
  \/ IngestAgain
  \/ (qry = NoQry /\ AllIdle /\ IngestUnread)
  \/ close_connection
  \/ (run = NoRun /\ qry = NoQry /\ \E id \in Writers : WriterPrepare(id))
  \/ (\E id \in Writers : WriterInsert(id))
  \/ (\E id \in Writers : WriterClose(id))
  \/ (run = NoRun /\ AllIdle /\ Query)
  \/ QueryAgain
  \/ QueryReturn

SpecStore == Init /\ [][NextStore]_vars

\* C19: append-only store - every step of an ingestion run or of a query
\* leaves each stored row as it was and removes none; ingestion only adds
\* rows whose key was absent, and a query changes nothing in the table.
AppendOnlyStore ==
  [][/\ Len(store') >= Len(store)
     /\ \A i \in DOMAIN store : store'[i] = store[i]
     /\ \A i \in DOMAIN store' \ DOMAIN store : store'[i].INC \notin Keys(store)
     /\ qry' # qry => store' = store]_vars

\* a run over a non-empty table has skipped a stored key and added a row
AppendOnlyStoreWitness ==
  /\ run # NoRun
  /\ Len(run.rep.before) >= 1
  /\ run.rep.skipped # <<>>
  /\ run.rep.written >= 1
  /\ Len(store) > Len(run.rep.before)

(***************************************************************************)
(* Pattern analysis.  A confidence score is kept in hundredths (0.3 is 30, *)
(* 0.15 is 15, 0.8 is 80).  A message of the analysis is kept as its       *)
(* template name, with the values the template is filled with.             *)
(***************************************************************************)
\* longest match list handed to the analyzer
MaxMatches == 6

\* Config.MIN_INCIDENTS_FOR_ANALYSIS
MIN_INCIDENTS_FOR_ANALYSIS == 3

Assignees == {"jack", "xyz"}

Groups == {"app-dev", "ops"}

\* the matches as the analyzer reads them
Matches == [Assignee : Assignees, Group : Groups]

\* the number of incidents filed under label k: len(patterns[k])
CountOf(labels, k) == Cardinality({i \in DOMAIN labels : labels[i] = k})

\* the keys of the patterns dictionary, in the order of their insertion
RECURSIVE dict_keys(_, _)
dict_keys(labels, seen) ==
  IF labels = <<>> THEN seen
  ELSE IF \E i \in DOMAIN seen : seen[i] = Head(labels)
       THEN dict_keys(Tail(labels), seen)
       ELSE dict_keys(Tail(labels), Append(seen, Head(labels)))

\* max that moves on to a later key of equal length
RECURSIVE max_LastWins(_, _, _)
max_LastWins(keys, labels, best) ==
  IF keys = <<>> THEN best
  ELSE IF CountOf(labels, Head(keys)) >= CountOf(labels, best)
       THEN max_LastWins(Tail(keys), labels, Head(keys))
       ELSE max_LastWins(Tail(keys), labels, best)

\* max(keys, key=lambda k: len(patterns[k])): a later key replaces the best
\* one only when it is strictly greater
RECURSIVE max(_, _, _)
max(keys, labels, best) ==
  IF keys = <<>> THEN best
  ELSE IF CountOf(labels, Head(keys)) > CountOf(labels, best)
       THEN max(Tail(keys), labels, Head(keys))
       ELSE max(Tail(keys), labels, best)

\* the most common label of a non-empty list of labels (lines 166-183)
most_common(labels) ==
  LET keys == dict_keys(labels, <<>>) IN max(Tail(keys), labels, Head(keys))

\* min(0.8, len(similar_incidents) * 0.15)
confidence(count) == Min(80, 15 * count)

\* EnhancedJiraCommentUpdater.analyze_historical_patterns
analyze_historical_patterns(similar_incidents) ==
  IF similar_incidents = <<>>
  THEN [patterns |-> <<>>, root_causes |-> <<>>, recommendations |-> <<>>,
        confidence_score |-> 0,
        suggested_assignee |-> "Unknown", suggested_group |-> "Unknown"]
  ELSE LET n == Len(similar_incidents)
           most_common_assignee ==
             most_common([i \in 1..n |-> similar_incidents[i].Assignee])
           most_common_group ==
             most_common([i \in 1..n |-> similar_incidents[i].Group])
       IN [patterns |-> << <<"handled by", most_common_assignee>>,
                           <<"in group", most_common_group>>,
                           <<"total", n>> >>,
           root_causes |-> <<>>,
           recommendations |->
             IF n >= MIN_INCIDENTS_FOR_ANALYSIS
             THEN << <<"assign to", most_common_assignee>>,
                     <<"involve", most_common_group>>,
                     <<"review past solutions">>, <<"check root causes">> >>
             ELSE << <<"limited data">>, <<"broader search">>, <<"manual review">> >>,
           confidence_score |->
             IF n >= MIN_INCIDENTS_FOR_ANALYSIS THEN confidence(n) ELSE 30,
           suggested_assignee |-> most_common_assignee,
           suggested_group |-> most_common_group]

\* JiraCommentUpdater.analyze_historical_patterns (jira_updater.py)
JiraCommentUpdater_analyze_historical_patterns(similar_incidents) ==
  IF similar_incidents = <<>>
  THEN [similar_patterns |-> <<>>, common_fixes |-> <<>>,
        recommended_actions |-> <<>>, confidence_score |-> 0]
  ELSE LET n == Len(similar_incidents)
           most_common_assignee ==
             most_common([i \in 1..n |-> similar_incidents[i].Assignee])
           most_common_group ==
             most_common([i \in 1..n |-> similar_incidents[i].Group])
       IN [similar_patterns |-> << <<"handled by", most_common_assignee>>,
                                   <<"in group", most_common_group>>,
                                   <<"total", n>> >>,
           common_fixes |-> <<>>,
           recommended_actions |->
             IF n >= 3
             THEN << <<"assign to", most_common_assignee>>,
                     <<"involve", most_common_group>>,
                     <<"review past solutions">> >>
             ELSE <<>>,
           confidence_score |-> IF n >= 3 THEN confidence(n) ELSE 0]

\* a response of the expected shape, as the prompt asks for it
GoodObject(score) ==
  [patterns |-> << <<"pattern1">> >>, root_causes |-> << <<"cause1">> >>,
   recommendations |-> << <<"action1">> >>, confidence_score |-> score,
   suggested_assignee |-> "team_name", suggested_group |-> "group_name"]

\* what json.loads can return for the model's text: the expected object, an
\* object with a confidence of 1.5, objects that miss fields, and a value
\* that is not an object (kept as a record without any of the fields)
JsonValues ==
  {GoodObject(80), GoodObject(150),
   [patterns |-> << <<"pattern1">> >>, confidence_score |-> 80],
   [recommendations |-> << <<"action1">> >>],
   [not_an_object |-> "array"]}

\* the outcomes of openai.ChatCompletion.create followed by json.loads: the
\* call raises, the text is not JSON, or the text parses to a value
LLMResponses ==
  {[kind |-> "raise"], [kind |-> "text"]} \cup {[kind |-> "json", value |-> v] : v \in JsonValues}

\* analyze_with_llm without the test for an empty match list
analyze_with_llm_NoEmptyTest(llm_available, similar_incidents, response) ==
  IF ~llm_available
  THEN [analysis |-> analyze_historical_patterns(similar_incidents), llm_called |-> FALSE]
  ELSE IF response.kind = "json"
       THEN [analysis |-> response.value, llm_called |-> TRUE]
       ELSE [analysis |-> analyze_historical_patterns(similar_incidents),
             llm_called |-> TRUE]

\* analyze_with_llm: the analysis returned and whether the model was called
analyze_with_llm(llm_available, similar_incidents, response) ==
  IF ~llm_available \/ similar_incidents = <<>>
  THEN [analysis |-> analyze_historical_patterns(similar_incidents), llm_called |-> FALSE]
  ELSE IF response.kind = "json"
       THEN [analysis |-> response.value, llm_called |-> TRUE]
       ELSE [analysis |-> analyze_historical_patterns(similar_incidents),
             llm_called |-> TRUE]

\* a direct call of analyze_historical_patterns, of either updater
AnalyzePatterns ==
  /\ ana = NoAna
  /\ \E similar_incidents \in SeqsUpTo(Matches, MaxMatches) :
       ana' = [kind |-> "rule", similar_incidents |-> similar_incidents,
               analysis |-> analyze_historical_patterns(similar_incidents),
               legacy |-> JiraCommentUpdater_analyze_historical_patterns(similar_incidents)]
  /\ UNCHANGED <<store, run, qry, w, req, registered>>

\* a call of analyze_with_llm
AnalyzeWithLLM ==
  /\ ana = NoAna
  /\ \E similar_incidents \in SeqsUpTo(Matches, MaxMatches), llm_available \in BOOLEAN :
       \E response \in IF llm_available THEN LLMResponses ELSE {[kind |-> "raise"]} :
         LET r == analyze_with_llm(llm_available, similar_incidents, response)
         IN ana' = [kind |-> "llm", similar_incidents |-> similar_incidents,
                    llm_available |-> llm_available, response |-> response,
                    analysis |-> r.analysis, llm_called |-> r.llm_called]
  /\ UNCHANGED <<store, run, qry, w, req, registered>>

\* the caller is done with the analysis
AnalyzeReturn ==
  /\ ana # NoAna
  /\ ana' = NoAna
  /\ UNCHANGED <<store, run, qry, w, req, registered>>

NextAnalyze == AnalyzePatterns \/ AnalyzeWithLLM \/ AnalyzeReturn

SpecAnalyze == Init /\ [][NextAnalyze]_vars

\* C12: for every match list, analyze_historical_patterns (of either updater)
\* returns confidence 0.3 below the minimum number of matches and
\* min(0.8, count * 0.15) from the minimum on
ConfidenceFloor ==
  ana.kind = "rule" =>
    LET count == Len(ana.similar_incidents)
        expected == IF count < MIN_INCIDENTS_FOR_ANALYSIS THEN 30
                    ELSE IF 15 * count > 80 THEN 80 ELSE 15 * count
    IN /\ ana.analysis.confidence_score = expected
       /\ ana.legacy.confidence_score = expected

\* the summary of no history
DefaultAnalysis ==
  [patterns |-> <<>>, root_causes |-> <<>>, recommendations |-> <<>>,
   confidence_score |-> 0,
   suggested_assignee |-> "Unknown", suggested_group |-> "Unknown"]

\* C13: with an empty match list analyze_historical_patterns and
\* analyze_with_llm return the summary of no history (empty lists, confidence
\* 0.0, assignee and group "Unknown") and the model is not called
EmptyInputDefault ==
  (ana # NoAna /\ ana.similar_incidents = <<>>) =>
    /\ ana.analysis = DefaultAnalysis
    /\ ana.kind = "llm" => ~ana.llm_called

EmptyInputDefaultWitness ==
  /\ ana.kind = "llm"
  /\ ana.llm_available
  /\ ana.response.kind = "json"
  /\ ana.similar_incidents = <<>>
  /\ ana.analysis = DefaultAnalysis

\* the position of the first incident filed under label k
FirstOccurrence(labels, k) ==
  CHOOSE i \in DOMAIN labels :
    labels[i] = k /\ \A j \in 1..(i - 1) : labels[j] # k

\* k has the greatest count among the labels and, of the labels with that
\* count, the earliest first occurrence
IsMostCommon(labels, k) ==
  /\ \E i \in DOMAIN labels : labels[i] = k
  /\ \A i \in DOMAIN labels :
       \/ CountOf(labels, labels[i]) < CountOf(labels, k)
       \/ /\ CountOf(labels, labels[i]) = CountOf(labels, k)
          /\ FirstOccurrence(labels, k) <= i

AssigneesOf(similar_incidents) ==
  [i \in DOMAIN similar_incidents |-> similar_incidents[i].Assignee]

GroupsOf(similar_incidents) ==
  [i \in DOMAIN similar_incidents |-> similar_incidents[i].Group]

\* C14: for every non-empty match list the suggested assignee, and likewise
\* the suggested group, is a label of greatest count (one per incident) and,
\* among the labels of that count, the one that occurs first in the list
MostCommonTieBreak ==
  (ana.kind = "rule" /\ ana.similar_incidents # <<>>) =>
    /\ IsMostCommon(AssigneesOf(ana.similar_incidents), ana.analysis.suggested_assignee)
    /\ IsMostCommon(GroupsOf(ana.similar_incidents), ana.analysis.suggested_group)

MostCommonTieBreakWitness ==
  /\ ana.kind = "rule"
  /\ Len(ana.similar_incidents) = 4
  /\ AssigneesOf(ana.similar_incidents) = <<"xyz", "jack", "jack", "xyz">>
  /\ ana.analysis.suggested_assignee = "xyz"
  /\ GroupsOf(ana.similar_incidents) = <<"ops", "app-dev", "app-dev", "app-dev">>
  /\ ana.analysis.suggested_group = "app-dev"

\* the fields of a well-formed response
AnalysisFields ==
  {"patterns", "root_causes", "recommendations", "confidence_score",
   "suggested_assignee", "suggested_group"}

WellFormed(response) ==
  response.kind = "json" /\ AnalysisFields \subseteq DOMAIN response.value

\* C15: when the model's response is not a well-formed object with the six
\* fields, analyze_with_llm returns the rule-based analysis of the same
\* matches and never the response
EnrichmentValidationFallback ==
  (ana.kind = "llm" /\ ana.llm_called /\ ~WellFormed(ana.response)) =>
    ana.analysis = analyze_historical_patterns(ana.similar_incidents)

\* C17: every analysis returned, for an empty list, by the rules or through
\* analyze_with_llm, carries a confidence score within [0, 1]
ConfidenceRange ==
  ana # NoAna =>
    /\ "confidence_score" \in DOMAIN ana.analysis
    /\ ana.analysis.confidence_score >= 0
    /\ ana.analysis.confidence_score <= 100

(***************************************************************************)
(* Processing of one issue: the request of the web interface, the fetch of *)
(* the issue, the search, the analysis, the comment and its posting.       *)
(***************************************************************************)
\* Config.SIMILARITY_THRESHOLD
SIMILARITY_THRESHOLD == Float(3, 10)

\* Config.MAX_SIMILAR_INCIDENTS
MAX_SIMILAR_INCIDENTS == 5

\* the texts of the form field threshold
FormTexts == {"0.8", "5.0", "-2.0", "abc", ""}

\* float(threshold) of a text of the form: ValueError for a text that is not
\* a number
float(text) ==
  CASE text = "0.8"  -> [raised |-> FALSE, value |-> Float(4, 5)]
    [] text = "5.0"  -> [raised |-> FALSE, value |-> Float(5, 1)]
    [] text = "-2.0" -> [raised |-> FALSE, value |-> Float(-2, 1)]
    [] OTHER         -> [raised |-> TRUE, value |-> Float(0, 1)]

\* a threshold the search is specified for: a number of [-1, 1]
ValidThreshold(text) ==
  /\ ~float(text).raised
  /\ ~Less(float(text).value, Float(-1, 1))
  /\ ~Less(Float(1, 1), float(text).value)

\* the forms posted to /process_issue: a field is absent (<<>>) or present
Forms == [issue_key : {<<>>, <<"PROJ-1">>},
          threshold : {<<>>} \cup {<<text>> : text \in FormTexts}]

\* lines 35-40 of process_issue: the threshold handed to the updater
form_threshold(form) ==
  IF form.threshold = <<>> THEN SIMILARITY_THRESHOLD
  ELSE IF float(form.threshold[1]).raised THEN SIMILARITY_THRESHOLD
       ELSE float(form.threshold[1]).value

NoComment == [kind |-> "none"]

\* generate_analysis_comment: analysis['patterns'] and
\* analysis['recommendations'] raise when the key is missing, the other
\* fields are read with a default
generate_analysis_comment(jira_description, similar_incidents, analysis) ==
  IF {"patterns", "recommendations"} \subseteq DOMAIN analysis
  THEN [raised |-> FALSE,
        comment |->
          [kind |-> "comment",
           description |-> jira_description,
           incidents |-> similar_incidents,
           patterns |-> analysis.patterns,
           root_causes |-> IF "root_causes" \in DOMAIN analysis
                           THEN analysis.root_causes ELSE <<>>,
           recommendations |-> analysis.recommendations,
           suggested_assignee |-> IF "suggested_assignee" \in DOMAIN analysis
                                  THEN analysis.suggested_assignee ELSE "TBD",
           suggested_group |-> IF "suggested_group" \in DOMAIN analysis
                               THEN analysis.suggested_group ELSE "TBD",
           confidence_score |-> IF "confidence_score" \in DOMAIN analysis
                                THEN analysis.confidence_score ELSE 0]]
  ELSE [raised |-> TRUE, comment |-> NoComment]

\* process_jira_issue returns False before the step named
Stopped(step) ==
  [raised |-> FALSE, result |-> FALSE, step |-> step, matches |-> <<>>,
   llm_called |-> FALSE, analysis |-> NoAna, posted |-> <<>>]

\* what the Jira server and the model do during one call: issue is "error"
\* when the fetch fails and the description of the issue otherwise, post
\* tells whether create_comment succeeds
Environments(llm_available) ==
  [issue : {"error", "", "a", "b"},
   response : IF llm_available THEN LLMResponses ELSE {[kind |-> "raise"]},
   post : {"ok", "error"}]

\* the updater after __init__.  jira is "None" when the construction of the
\* client raised.  The constructor calls JIRA(...) while the module imports
\* only the name Jira, so in the module as it stands the call raises and
\* jira is "None"; "client" is the updater of a module in which the name
\* resolves.
Updaters == [jira : {"None", "client"}, llm_available : BOOLEAN]

\* process_jira_issue: the outcomes of one call, one for each order in which
\* the search may return incidents of equal similarity.  reg tells whether
\* cosine_similarity is registered on the updater's connection by an earlier
\* search: create_function (line 56) then raises, as a connection takes a
\* function name once.
process_jira_issue(st, updater, reg, threshold, env) ==
  IF updater.jira = "None" \/ env.issue = "error" THEN {Stopped("fetch")}
  ELSE IF env.issue = "" THEN {Stopped("description")}
  ELSE IF reg
  THEN {[raised |-> TRUE, result |-> FALSE, step |-> "create_function",
         matches |-> <<>>, llm_called |-> FALSE, analysis |-> NoAna, posted |-> <<>>]}
  ELSE
    {IF res.raised
     THEN [raised |-> TRUE, result |-> FALSE, step |-> "search", matches |-> <<>>,
           llm_called |-> FALSE, analysis |-> NoAna, posted |-> <<>>]
     ELSE IF res.matches = <<>> THEN Stopped("matches")
     ELSE
       LET a == analyze_with_llm(updater.llm_available, res.matches, env.response)
           c == generate_analysis_comment(env.issue, res.matches, a.analysis)
       IN IF c.raised
          THEN [raised |-> TRUE, result |-> FALSE, step |-> "comment",
                matches |-> res.matches, llm_called |-> a.llm_called,
                analysis |-> a.analysis, posted |-> <<>>]
          ELSE [raised |-> FALSE, result |-> env.post = "ok", step |-> "post",
                matches |-> res.matches, llm_called |-> a.llm_called,
                analysis |-> a.analysis,
                posted |-> IF env.post = "ok" THEN <<c.comment>> ELSE <<>>]
     : res \in search_similar_incidents(st, embed_content(env.issue), threshold,
                                        MAX_SIMILAR_INCIDENTS)}

\* the call came to create_function, which registers cosine_similarity
Registers(out) == out.step \in {"create_function", "search", "matches", "comment", "post"}

\* the JSON response of process_issue and its HTTP status
process_issue(form, out) ==
  IF form.issue_key = <<>> THEN [status |-> 400, body |-> "Issue key is required"]
  ELSE IF out.raised THEN [status |-> 500, body |-> "error"]
  ELSE IF out.result THEN [status |-> 200, body |-> "Issue processed successfully"]
  ELSE [status |-> 200, body |-> "Failed to process issue"]

\* the label pairs of the incidents loaded for the issues
IssueLabels == {<<"jack", "app-dev">>, <<"xyz", "ops">>}

\* the corpus grows by one run over a one-row spreadsheet
LoadIncident ==
  /\ req = NoReq
  /\ Len(store) < MaxCorpus
  /\ \E text \in {"", "a", "b"}, label \in IssueLabels :
       store' = process_excel_to_db(store,
                  <<[INC |-> KeyNames[Len(store) + 1], ShortDesc |-> text,
                     Assignee |-> label[1], Group |-> label[2]]>>,
                  <<TRUE>>).store
  /\ UNCHANGED <<run, qry, w, ana, req, registered>>

\* the calls in which every input is read: the form names an issue, the
\* issue has a description
FullCalls ==
  {c \in [form : Forms, updater : Updaters, issue : {"a", "b"}] :
     c.form.issue_key # <<>> /\ c.updater.jira = "client"}

\* a POST to /process_issue that reaches the search
ProcessIssue ==
  /\ req = NoReq
  /\ \E c \in FullCalls :
       \E env \in Environments(c.updater.llm_available) :
         /\ env.issue = c.issue
         /\ \E out \in process_jira_issue(store, c.updater, "enhanced" \in registered,
                                          form_threshold(c.form), env) :
              /\ req' = [kind |-> "process_issue", form |-> c.form, updater |-> c.updater,
                         env |-> env, threshold |-> form_threshold(c.form),
                         out |-> out, response |-> process_issue(c.form, out)]
              /\ registered' = IF Registers(out) THEN registered \cup {"enhanced"}
                               ELSE registered
  /\ UNCHANGED <<store, run, qry, w, ana>>

\* a POST to /process_issue that ends before the search: no issue key in the
\* form, no Jira client, the fetch fails or the issue has no description
ProcessIssueEarly ==
  /\ req = NoReq
  /\ \E form \in Forms, jira \in {"None", "client"}, issue \in {"error", ""} :
       LET updater == [jira |-> jira, llm_available |-> FALSE]
           env == [issue |-> issue, response |-> [kind |-> "raise"], post |-> "error"]
           out == IF form.issue_key = <<>> THEN Stopped("issue_key")
                  ELSE CHOOSE o \in process_jira_issue(store, updater, "enhanced" \in registered,
                                                      form_threshold(form), env) : TRUE
       IN /\ \/ form.issue_key = <<>> /\ jira = "None" /\ issue = "error"
             \/ form.issue_key # <<>> /\ jira = "None" /\ issue = "error"
             \/ form.issue_key # <<>> /\ jira = "client" /\ issue \in {"error", ""}
          /\ req' = [kind |-> "process_issue", form |-> form, updater |-> updater,
                     env |-> env, threshold |-> form_threshold(form),
                     out |-> out, response |-> process_issue(form, out)]
  /\ UNCHANGED <<store, run, qry, w, ana, registered>>

\* the response is sent
RequestDone ==
  /\ req # NoReq
  /\ req' = NoReq
  /\ UNCHANGED <<store, run, qry, w, ana, registered>>

\* the web interface is started again: get_updater builds a new updater
\* with a new connection
NewUpdater ==
  /\ req = NoReq
  /\ registered # {}
  /\ registered' = {}
  /\ UNCHANGED <<store, run, qry, w, ana, req>>

NextIssue ==
  LoadIncident \/ ProcessIssue \/ ProcessIssueEarly \/ RequestDone \/ NewUpdater

SpecIssue == Init /\ [][NextIssue]_vars

\* the call came to the analysis of the matches
Analysed == req # NoReq /\ req.out.step \in {"comment", "post"}

\* the comment built from the rule-based analysis of the matches of the call
RuleBasedComment ==
  generate_analysis_comment(req.env.issue, req.out.matches,
                            analyze_historical_patterns(req.out.matches)).comment

Searched == req.out.step \in {"search", "matches", "comment", "post"}

\* C18: a request whose threshold is not a number or lies outside [-1, 1] is
\* rejected with an error for the parameter; no default takes the place of the
\* value and no search runs
QueryParameterErrors ==
  (/\ req # NoReq
   /\ req.form.issue_key # <<>>
   /\ req.form.threshold # <<>>
   /\ ~ValidThreshold(req.form.threshold[1])) =>
    /\ req.response.status = 400
    /\ ~Searched

(***************************************************************************)
(* Properties of the preparation and of the failures of a run              *)
(***************************************************************************)
\* the keys of a table or of a list of incidents, in order
KeySeq(seq) == [i \in DOMAIN seq |-> seq[i].INC]

\* the spreadsheet with a text in the place of every empty Short Desc
WithText(df) ==
  [i \in DOMAIN df |->
     [df[i] EXCEPT !.ShortDesc = IF @ \in {"", "nan"} THEN "a" ELSE @]]

\* the candidates of a run: rows with a key that the run did not find stored
Candidates(rep) ==
  {i \in DOMAIN rep.df :
     rep.df[i].INC \notin {"", "nan"} /\ rep.df[i].INC \notin Keys(rep.seen)}

\* C21: every row with a non-empty key that is not yet stored and with an
\* empty Short Desc (the empty string, or an empty cell) is prepared with the vector [] and is inserted like any
\* other record: no row is dropped for its empty text, and the run stores
\* the same keys, in the same order, as it would if the rows had a text
EmptyDescriptionsIngested ==
  run # NoRun =>
    LET rep == run.rep
        all == [i \in DOMAIN rep.df |-> TRUE]
    IN /\ Len(rep.incidents) = Cardinality(Candidates(rep))
       /\ \A i \in Candidates(rep) :
            rep.df[i].ShortDesc \in {"", "nan"} =>
              \E j \in DOMAIN rep.incidents :
                /\ rep.incidents[j].INC = rep.df[i].INC
                /\ rep.incidents[j].ShortDesc = rep.df[i].ShortDesc
                /\ rep.incidents[j].vector = <<>>
       /\ KeySeq(rep.incidents) = KeySeq(prepare_incident_data(rep.seen, WithText(rep.df), all))
       /\ KeySeq(rep.store)
            = KeySeq(process_excel_to_db_read(rep.seen, rep.before, WithText(rep.df), all).store)
       /\ ~rep.raised => \A j \in DOMAIN rep.incidents :
                           \E k \in DOMAIN store : store[k] = rep.incidents[j]

\* the provider failed for an incident of the run: it has a text and the
\* vector [] that generate_embedding returns from its except branch
ProviderFailed(rep) ==
  \E j \in DOMAIN rep.incidents :
    rep.incidents[j].ShortDesc # "" /\ rep.incidents[j].vector = <<>>

\* C22: when the provider fails for a record no record with a substitute
\* vector is written, and a run during which the provider or the store (the
\* SELECT of the stored keys included) fails raises instead of going on
ExplicitFailures ==
  /\ \A i \in DOMAIN store :
       store[i].ShortDesc # "" => store[i].vector = embed_content(store[i].ShortDesc)
  /\ run # NoRun =>
       /\ ProviderFailed(run.rep) => (run.rep.raised /\ run.rep.written = 0)
       /\ run.kind = "unread" => (run.rep.raised /\ run.rep.written = 0)

(***************************************************************************)
(* insert_incidents chunk by chunk: the loop of lines 188-213 with the     *)
(* table visible between two executemany calls.                            *)
(***************************************************************************)
\* longest spreadsheet of a run that is followed chunk by chunk: two full
\* chunks and the first row of a third
MaxChunked == 2 * batch_size + 1

ChunkKeys == {"K1", "K2", "K3", "K4"}

\* one chunk that takes all the remaining incidents
batch_of_Rest(incidents, i) == SubSeq(incidents, i + 1, Len(incidents))

\* batch = incidents[i:i + batch_size]
batch_of(incidents, i) ==
  SubSeq(incidents, i + 1, Min(i + batch_size, Len(incidents)))

\* process_excel_to_db up to the loop of insert_incidents
BeginInsert ==
  /\ run = NoRun
  /\ \E df \in SeqsUpTo(Rows(ChunkKeys, {"a"}), MaxChunked) :
       LET incidents == prepare_incident_data(store, df, [j \in DOMAIN df |-> TRUE])
       IN run' = [kind |-> IF incidents = <<>> THEN "returned" ELSE "inserting",
                  before |-> store, incidents |-> incidents,
                  i |-> 0, chunks |-> 0, total_inserted |-> 0,
                  failed |-> 0, lost |-> FALSE]
  /\ UNCHANGED <<store, qry, w, ana, req, registered>>

\* one pass of the loop: the executemany of the next chunk.  The store is
\* available and executes the chunk, or it is not and the call raises with
\* nothing written; an exception is printed and re-raised (lines 217-219).
InsertChunk ==
  /\ run # NoRun
  /\ run.kind = "inserting"
  /\ \E available \in BOOLEAN :
       LET batch == batch_of(run.incidents, run.i)
           r == IF available THEN executemany(store, batch, 0)
                ELSE [store |-> store, written |-> 0, raised |-> TRUE, key |-> ""]
       IN /\ store' = r.store
          /\ run' = IF r.raised
                    THEN [run EXCEPT !.kind = "raised", !.failed = run.chunks + 1,
                                     !.lost = ~available]
                    ELSE [run EXCEPT !.i = run.i + batch_size,
                                     !.chunks = run.chunks + 1,
                                     !.total_inserted = run.total_inserted + Len(batch),
                                     !.kind = IF run.i + batch_size >= Len(run.incidents)
                                              THEN "returned" ELSE "inserting"]
  /\ UNCHANGED <<qry, w, ana, req, registered>>

\* the run is interrupted between two chunks
Abandon ==
  /\ run # NoRun
  /\ run.kind = "inserting"
  /\ run' = [run EXCEPT !.kind = "abandoned"]
  /\ UNCHANGED <<store, qry, w, ana, req, registered>>

\* main's finally: close_connection after the run returned, raised or was
\* interrupted
CloseAfterInsert ==
  /\ run # NoRun
  /\ run.kind \in {"returned", "raised", "abandoned"}
  /\ run' = NoRun
  /\ UNCHANGED <<store, qry, w, ana, req, registered>>

NextChunks == BeginInsert \/ InsertChunk \/ Abandon \/ CloseAfterInsert

SpecChunks == Init /\ [][NextChunks]_vars

\* the number of incidents in the chunks that were written completely
Completed == Min(run.chunks * batch_size, Len(run.incidents))

\* C23: insert_incidents writes the incidents in consecutive chunks of at
\* most batch_size rows in input order; when the write of chunk k fails or
\* the run is abandoned after chunk k-1, every record of the chunks 1..k-1
\* stays stored, no record of a later chunk is written and a failure is
\* raised to the caller
ChunkedCommit ==
  run # NoRun =>
    /\ SubSeq(store, 1, Len(run.before)) = run.before
    /\ \A j \in 1..Completed : store[Len(run.before) + j] = run.incidents[j]
    /\ \A j \in 1..(Len(store) - Len(run.before)) :
         store[Len(run.before) + j] = run.incidents[j]
    /\ run.kind \in {"inserting", "abandoned", "returned"} =>
         /\ Len(store) = Len(run.before) + Completed
         /\ run.failed = 0
    /\ run.kind = "returned" => Completed = Len(run.incidents)
    /\ run.kind = "raised" =>
         /\ run.failed = run.chunks + 1
         /\ Len(store) >= Len(run.before) + Completed
         /\ Len(store) < Len(run.before)
                           + Min((run.chunks + 1) * batch_size, Len(run.incidents))
    /\ (run.kind \in {"returned", "raised"} /\ ~run.lost) =>
         LET r == insert_incidents(run.before, run.incidents, 0)
         IN r.store = store /\ r.raised = (run.kind = "raised")

\* the second chunk of three was rejected at its second row: the first chunk
\* and the first row of the second are stored, the third chunk is not
ChunkedCommitWitness ==
  /\ run # NoRun
  /\ run.kind = "raised"
  /\ run.chunks >= 1
  /\ Len(run.incidents) > (run.chunks + 1) * batch_size
  /\ Len(store) > Len(run.before) + Completed

(***************************************************************************)
(* JiraCommentUpdater (jira_updater.py): the updater without enrichment,   *)
(* which reaches Jira through requests.                                    *)
(***************************************************************************)
\* JiraCommentUpdater.generate_analysis_comment: reads the three entries of
\* analysis['similar_patterns'], the recommended actions and the confidence
JiraCommentUpdater_generate_analysis_comment(jira_description, similar_incidents, analysis) ==
  IF Len(analysis.similar_patterns) < 3
  THEN [raised |-> TRUE, comment |-> NoComment]
  ELSE [raised |-> FALSE,
        comment |-> [kind |-> "comment",
                     description |-> jira_description,
                     incidents |-> similar_incidents,
                     similar_patterns |-> SubSeq(analysis.similar_patterns, 1, 3),
                     recommended_actions |-> analysis.recommended_actions,
                     confidence_score |-> analysis.confidence_score]]

\* JiraCommentUpdater.process_jira_issue with the default threshold 0.3 and
\* the default limit 5 of its search
JiraCommentUpdater_process_jira_issue(st, reg, env) ==
  IF env.issue = "error" THEN {Stopped("fetch")}
  ELSE IF env.issue = "" THEN {Stopped("description")}
  ELSE IF reg
  THEN {[raised |-> TRUE, result |-> FALSE, step |-> "create_function",
         matches |-> <<>>, llm_called |-> FALSE, analysis |-> NoAna, posted |-> <<>>]}
  ELSE
    {IF res.raised
     THEN [raised |-> TRUE, result |-> FALSE, step |-> "search", matches |-> <<>>,
           llm_called |-> FALSE, analysis |-> NoAna, posted |-> <<>>]
     ELSE IF res.matches = <<>> THEN Stopped("matches")
     ELSE
       LET analysis == JiraCommentUpdater_analyze_historical_patterns(res.matches)
           c == JiraCommentUpdater_generate_analysis_comment(env.issue, res.matches, analysis)
       IN IF c.raised
          THEN [raised |-> TRUE, result |-> FALSE, step |-> "comment",
                matches |-> res.matches, llm_called |-> FALSE,
                analysis |-> analysis, posted |-> <<>>]
          ELSE [raised |-> FALSE, result |-> env.post = "ok", step |-> "post",
                matches |-> res.matches, llm_called |-> FALSE,
                analysis |-> analysis,
                posted |-> IF env.post = "ok" THEN <<c.comment>> ELSE <<>>]
     : res \in search_similar_incidents(st, embed_content(env.issue), Float(3, 10), 5)}

\* a call of JiraCommentUpdater.process_jira_issue, as main makes it
LegacyProcessIssue ==
  /\ req = NoReq
  /\ \E issue \in {"error", "", "a", "b"}, post \in {"ok", "error"} :
       LET env == [issue |-> issue, response |-> [kind |-> "raise"], post |-> post]
       IN /\ issue \in {"error", ""} => post = "error"
          /\ \E out \in JiraCommentUpdater_process_jira_issue(store, "legacy" \in registered, env) :
               /\ req' = [kind |-> "legacy", env |-> env, out |-> out]
               /\ registered' = IF Registers(out) THEN registered \cup {"legacy"}
                                ELSE registered
  /\ UNCHANGED <<store, run, qry, w, ana>>

NextProtocol ==
  \/ LoadIncident
  \/ ProcessIssue
  \/ ProcessIssueEarly
  \/ LegacyProcessIssue
  \/ RequestDone
  \/ NewUpdater

SpecProtocol == Init /\ [][NextProtocol]_vars

\* process_jira_issue was called
Called == req # NoReq /\ (req.kind = "process_issue" => req.form.issue_key # <<>>)

\* the updater of the call could reach Jira
HasClient == req.kind = "legacy" \/ req.updater.jira = "client"

\* C24: a call of process_jira_issue posts at most one comment, and only
\* after the issue was fetched, its description was not empty and the search
\* returned a match; in every other case it returns False and posts nothing;
\* it returns True exactly when the comment was posted
PostingProtocol ==
  Called =>
    /\ Len(req.out.posted) <= 1
    /\ req.out.posted # <<>> =>
         /\ HasClient
         /\ req.env.issue \notin {"error", ""}
         /\ req.out.matches # <<>>
    /\ req.out.posted = <<>> => (~req.out.raised /\ ~req.out.result)
    /\ req.out.result <=> req.out.posted # <<>>

(***************************************************************************)
(* Batch processing: batch_process_issues and the endpoint /batch_process  *)
(***************************************************************************)
\* most lines of the form field issue_keys
MaxLines == 3

\* the lines of the field: an issue key, or a comment line
BatchLines == {"PROJ-1", "PROJ-2", "# later"}

\* lines 71-77 of batch_process: the lines that are not comments, in order
parse_issue_keys(lines) ==
  LET keep(line) == line # "# later" IN SelectSeq(lines, keep)

\* what Jira does for one key of the batch
BatchEnvironments ==
  {env \in [issue : {"error", "a"}, response : {[kind |-> "raise"]},
            post : {"ok", "error"}] :
     env.issue = "error" => env.post = "error"}

\* the loop without the try: the first exception ends the batch
RECURSIVE batch_process_issues_NoTry(_, _, _, _, _)
batch_process_issues_NoTry(st, updater, reg, issue_keys, envs) ==
  IF issue_keys = <<>> THEN {<<>>}
  ELSE UNION {
         IF out.raised
         THEN {<<[key |-> Head(issue_keys), out |-> out, success |-> FALSE]>>}
         ELSE {<<[key |-> Head(issue_keys), out |-> out, success |-> out.result]>> \o rest :
                 rest \in batch_process_issues_NoTry(st, updater, reg \/ Registers(out),
                                                     Tail(issue_keys), Tail(envs))}
         : out \in process_jira_issue(st, updater, reg, SIMILARITY_THRESHOLD, Head(envs))}

\* batch_process_issues: one process_jira_issue per key, in order, with the
\* default threshold; an exception is caught and recorded as False.  Result:
\* the calls made, one list for each way the searches may order their ties.
RECURSIVE batch_process_issues(_, _, _, _, _)
batch_process_issues(st, updater, reg, issue_keys, envs) ==
  IF issue_keys = <<>> THEN {<<>>}
  ELSE UNION {
         {<<[key |-> Head(issue_keys), out |-> out,
             success |-> IF out.raised THEN FALSE ELSE out.result]>> \o rest :
            rest \in batch_process_issues(st, updater, reg \/ Registers(out),
                                          Tail(issue_keys), Tail(envs))}
         : out \in process_jira_issue(st, updater, reg, SIMILARITY_THRESHOLD, Head(envs))}

\* the dictionary results after the calls: the last value assigned to a key
results_of(calls) ==
  [k \in {calls[i].key : i \in DOMAIN calls} |->
     LET last == CHOOSE i \in DOMAIN calls :
                   calls[i].key = k /\ \A j \in DOMAIN calls : calls[j].key = k => j <= i
     IN calls[last].success]

\* the JSON response of batch_process
batch_process(lines, issue_keys, results) ==
  IF lines = <<>> THEN [status |-> 400, body |-> "Issue keys are required"]
  ELSE IF issue_keys = <<>> THEN [status |-> 400, body |-> "No valid issue keys found"]
  ELSE [status |-> 200, body |-> "results",
        total_processed |-> Cardinality(DOMAIN results),
        successful |-> Cardinality({k \in DOMAIN results : results[k]}),
        failed |-> Cardinality({k \in DOMAIN results : ~results[k]})]

\* a POST to /batch_process.  The threshold of the form is parsed and not
\* used: batch_process_issues is called with the keys alone.
BatchProcess ==
  /\ req = NoReq
  /\ \E lines \in SeqsUpTo(BatchLines, MaxLines), jira \in {"None", "client"} :
       LET issue_keys == parse_issue_keys(lines)
           updater == [jira |-> jira, llm_available |-> FALSE]
       IN \E envs \in [DOMAIN issue_keys -> BatchEnvironments] :
            /\ jira = "None" => \A i \in DOMAIN envs : envs[i].issue = "error"
            /\ issue_keys = <<>> => jira = "None"
            /\ \E calls \in batch_process_issues(store, updater, "enhanced" \in registered,
                                                 issue_keys, envs) :
                 /\ req' = [kind |-> "batch", lines |-> lines, issue_keys |-> issue_keys,
                            updater |-> updater, envs |-> envs, calls |-> calls,
                            results |-> results_of(calls),
                            response |-> batch_process(lines, issue_keys, results_of(calls))]
                 /\ registered' = IF \E i \in DOMAIN calls : Registers(calls[i].out)
                                  THEN registered \cup {"enhanced"} ELSE registered
  /\ UNCHANGED <<store, run, qry, w, ana>>

NextBatch == LoadIncident \/ BatchProcess \/ RequestDone \/ NewUpdater

SpecBatch == Init /\ [][NextBatch]_vars

\* the last call made for key k
LastCall(k) ==
  CHOOSE i \in DOMAIN req.calls :
    req.calls[i].key = k /\ \A j \in (i + 1)..Len(req.calls) : req.calls[j].key # k

\* C25: batch_process_issues processes every key in input order; an exception
\* or a failure for one key is recorded as False for the key and the later
\* keys are still processed; the result has an entry for every distinct key
\* (the one of its last occurrence); the counts successful and failed of the
\* endpoint add up to total_processed
BatchIsolation ==
  (req # NoReq /\ req.kind = "batch" /\ req.issue_keys # <<>>) =>
    /\ Len(req.calls) = Len(req.issue_keys)
    /\ \A i \in DOMAIN req.calls :
         /\ req.calls[i].key = req.issue_keys[i]
         /\ (req.calls[i].out.raised \/ ~req.calls[i].out.result) => ~req.calls[i].success
         /\ req.calls[i].success => req.calls[i].out.posted # <<>>
    /\ DOMAIN req.results = {req.issue_keys[i] : i \in DOMAIN req.issue_keys}
    /\ \A k \in DOMAIN req.results : req.results[k] = req.calls[LastCall(k)].success
    /\ req.response.status = 200
    /\ req.response.total_processed = Cardinality(DOMAIN req.results)
    /\ req.response.successful + req.response.failed = req.response.total_processed

\* a batch of three lines: the call for the first key posted its comment,
\* the call for the second raised, and the third call was still made
BatchIsolationWitness ==
  /\ req # NoReq
  /\ req.kind = "batch"
  /\ Len(req.calls) = 3
  /\ req.calls[1].success
  /\ req.calls[2].out.raised
  /\ req.calls[2].key # req.calls[1].key
  /\ req.calls[3].out.step = "create_function"
  /\ req.response.successful >= 1
  /\ req.response.failed >= 1

=============================================================================
